---- MODULE Spec2Model ----
(***************************************************************************)
(* Model of the nano-banana MCP server (class NanoBananaMCP): the session  *)
(* state (config, genAI, lastImagePath, configSource), the startup         *)
(* credential loading, the call_tool dispatcher and its six tool handlers. *)
(* Strings that the code inspects (API keys, the JSON text of the          *)
(* configuration file) are sequences of one-character strings.  A value    *)
(* that may be null/undefined is a sequence of length 0 (None) or 1.       *)
(***************************************************************************)
EXTENDS Integers, Sequences, FiniteSets, TLC

\* ------------------------------------------------------------------ bounds
MaxKeyLen == 2

MaxParts == 2

MaxRefs == 2

\* --------------------------------------------------------- optional values
None == <<>>

Some(x) == <<x>>

\* ------------------------------------------------------ strings and keys
Chars == {"k", " ", "\""}

Strings(n) == UNION {[1..m -> Chars] : m \in 0..n}

Keys == Strings(MaxKeyLen)

\* ------------------------------------------------------------ ConfigSchema
\* ConfigSchema without .min(1): any string is a key.  C7 does not hold of it.
ConfigSchemaParse_NoMin(v) ==
  IF ~v.isObject \/ v.geminiApiKey = None
    THEN [ok |-> FALSE, issue |-> "invalid_type", config |-> None]
    ELSE [ok |-> TRUE, issue |-> "", config |-> Some([geminiApiKey |-> v.geminiApiKey[1]])]

\* z.object({geminiApiKey: z.string().min(1, ...)}).parse(v): the parsed
\* config, or the first issue of the ZodError it throws.
ConfigSchemaParse(v) ==
  IF ~v.isObject \/ v.geminiApiKey = None
    THEN [ok |-> FALSE, issue |-> "invalid_type", config |-> None]
    ELSE IF Len(v.geminiApiKey[1]) >= 1
      THEN [ok |-> TRUE, issue |-> "", config |-> Some([geminiApiKey |-> v.geminiApiKey[1]])]
      ELSE [ok |-> FALSE, issue |-> "Gemini API key is required", config |-> None]

\* new GoogleGenAI({apiKey}): the client handle remembers the key it was built from.
NewGoogleGenAI(apiKey) == [apiKey |-> apiKey]

\* ------------------------------------------------------ JSON (config file)
\* The text of the configuration file is a sequence of tokens: the
\* structural tokens "{", "geminiApiKey:" and "}", and the characters of
\* string literals.  Insignificant whitespace is left out.
\* A writer that escapes nothing.  C5 does not hold of it.
EscapeChar_Plain(c) == <<c>>

EscapeChar(c) ==
  IF c = "\"" THEN <<"\\", "\"">>
  ELSE IF c = "\\" THEN <<"\\", "\\">>
  ELSE <<c>>

RECURSIVE EscapeStr(_)
EscapeStr(s) == IF s = <<>> THEN <<>> ELSE EscapeChar(Head(s)) \o EscapeStr(Tail(s))

\* JSON.stringify(this.config, null, 2)
JSONStringify(cfg) ==
  <<"{", "geminiApiKey:", "\"">> \o EscapeStr(cfg.geminiApiKey) \o <<"\"", "}">>

\* Reads a string literal after its opening quote: the characters up to the
\* closing quote, unescaped, and the text after the closing quote.
RECURSIVE ScanString(_, _)
ScanString(t, acc) ==
  IF t = <<>> THEN [ok |-> FALSE, str |-> acc, rest |-> <<>>]
  ELSE IF Head(t) = "\"" THEN [ok |-> TRUE, str |-> acc, rest |-> Tail(t)]
  ELSE IF Head(t) = "\\"
    THEN IF Len(t) >= 2 /\ t[2] \in {"\"", "\\"}
           THEN ScanString(Tail(Tail(t)), Append(acc, t[2]))
           ELSE [ok |-> FALSE, str |-> acc, rest |-> <<>>]
  ELSE ScanString(Tail(t), Append(acc, Head(t)))

\* JSON.parse(configData): None when it throws a SyntaxError.
JSONParse(t) ==
  IF t = <<"null">> THEN Some([isObject |-> FALSE, geminiApiKey |-> None])
  ELSE IF t = <<"{", "}">> THEN Some([isObject |-> TRUE, geminiApiKey |-> None])
  ELSE IF Len(t) >= 3 /\ t[1] = "{" /\ t[2] = "geminiApiKey:" /\ t[3] = "\""
    THEN LET s == ScanString(SubSeq(t, 4, Len(t)), <<>>)
         IN IF s.ok /\ s.rest = <<"}">>
              THEN Some([isObject |-> TRUE, geminiApiKey |-> Some(s.str)])
              ELSE None
  ELSE None

\* ------------------------------------------------------------------- state
VARIABLES
  env,            \* process.env: GEMINI_API_KEY and GEMINI_IMAGE_MODEL
  pc,             \* "start": constructed; "idle": awaiting a request; "responding"
  config,         \* this.config: None or Some([geminiApiKey |-> key])
  genAI,          \* this.genAI: None or Some(client handle)
  lastImagePath,  \* this.lastImagePath: None or Some(path)
  configSource,   \* this.configSource
  configFile,     \* .nano-banana-config.json: None (no file) or Some(text)
  disk,           \* image files: path -> None (no file) or Some(bytes)
  configReads,    \* number of reads of the configuration file by this process
  savedKey,       \* the key of the record saveConfig wrote, while the file holds it
  last,           \* the step just taken and what it returned (cleared once answered)
  prev,           \* a summary of the step answered before it
  pending         \* a continue_editing call suspended at await fs.access: None or
                  \* Some([args, verified]), verified the path it passed to fs.access

vars == <<env, pc, config, genAI, lastImagePath, configSource, configFile, disk,
          configReads, savedKey, last, prev, pending>>

\* ------------------------------------------------------------------ errors
\* new McpError(code, message); the message is a sequence of string pieces.
McpError(code, message) == [mcp |-> TRUE, code |-> code, message |-> message]

\* Any other thrown Error (TypeError, a file system error, an upstream error).
JsError(message) == [mcp |-> FALSE, code |-> "", message |-> message]

\* `${x}` of a value that may be undefined
ToStr(o) == IF o = None THEN "undefined" ELSE o[1]

\* ------------------------------------------------------------------- files
\* fs.writeFile outcomes: written; or an error that leaves the file as it
\* was, or that leaves it truncated (opened for writing, nothing written).
WriteOutcomes == {"ok", "fail_untouched", "fail_truncated"}

FileAfterWrite(old, new, outcome) ==
  IF outcome = "ok" THEN Some(new)
  ELSE IF outcome = "fail_truncated" THEN Some(<<>>)
  ELSE old

\* ------------------------------------------------------------ step records
\* raised is the error the handler threw, before the dispatcher's catch; nd is
\* what the environment did during the step (see NoNd).
Step(tool, args, err, content, requests, saved, raised, nd) ==
  [tool |-> tool, args |-> args, err |-> err, content |-> content,
   requests |-> requests, saved |-> saved, raised |-> raised, nd |-> nd]

\* What a handler leaves behind: the error it throws (None when it returns),
\* the content it returns, the session fields and files after it, the
\* requests it sent upstream and the files it saved.
Keep(err, content) ==
  [err |-> err, content |-> content, config |-> config, genAI |-> genAI,
   configSource |-> configSource, lastImagePath |-> lastImagePath,
   configFile |-> configFile, disk |-> disk, savedKey |-> savedKey,
   requests |-> <<>>, saved |-> <<>>, raised |-> err]

TextPart(text) == [type |-> "text", text |-> text]

\* The outcome of a configure call in which new GoogleGenAI throws (the
\* library is not part of the source; with this outcome left out the
\* constructor always returns).
CtorThrows == "ctor_throws"

\* ------------------------------------------------------------- saveConfig
\* saveConfig(): writes JSON.stringify(this.config) when this.config is set.
\* cfg is this.config at the time of the call.
SaveConfig(cfg, outcome) ==
  IF cfg = None THEN [threw |-> FALSE, file |-> configFile, savedKey |-> savedKey]
  ELSE [threw |-> outcome # "ok",
        file |-> FileAfterWrite(configFile, JSONStringify(cfg[1]), outcome),
        savedKey |-> IF outcome = "ok" THEN Some(cfg[1].geminiApiKey)
                     ELSE IF outcome = "fail_truncated" THEN None
                     ELSE savedKey]

\* -------------------------------------------------- configure_gemini_token
\* args: request.params.arguments (None when the request carries none).
\* configureGeminiToken saving before it assigns the session fields, so that
\* a failed write leaves them as they were.  C1 does not hold of it.
ConfigureGeminiToken_SaveFirst(args, outcome) ==
  IF args = None
    THEN Keep(Some(JsError(<<"Cannot destructure property 'apiKey'">>)), <<>>)
  ELSE
    LET apiKey == args[1].apiKey
        parsed == ConfigSchemaParse([isObject |-> TRUE, geminiApiKey |-> apiKey])
    IN IF ~parsed.ok
         THEN Keep(Some(McpError("InvalidParams", <<"Invalid API key: ", parsed.issue>>)), <<>>)
       ELSE
         LET cfg == Some([geminiApiKey |-> apiKey[1]])
             sv == SaveConfig(cfg, outcome)
         IN IF sv.threw
              THEN [Keep(Some(JsError(<<"writeFile failed">>)), <<>>) EXCEPT
                      !.configFile = sv.file,
                      !.savedKey = sv.savedKey]
              ELSE [Keep(None, <<TextPart(<<"Gemini API token configured successfully!">>)>>)
                      EXCEPT !.config = cfg,
                             !.genAI = Some(NewGoogleGenAI(apiKey[1])),
                             !.configSource = "config_file",
                             !.configFile = sv.file,
                             !.savedKey = sv.savedKey]

\* configureGeminiToken leaving the source tag as it was.  C21 does not hold
\* of it.
ConfigureGeminiToken_KeepsSource(args, outcome) ==
  IF args = None
    THEN Keep(Some(JsError(<<"Cannot destructure property 'apiKey'">>)), <<>>)
  ELSE
    LET apiKey == args[1].apiKey
        parsed == ConfigSchemaParse([isObject |-> TRUE, geminiApiKey |-> apiKey])
    IN IF ~parsed.ok
         THEN Keep(Some(McpError("InvalidParams", <<"Invalid API key: ", parsed.issue>>)), <<>>)
       ELSE
         LET cfg == Some([geminiApiKey |-> apiKey[1]])
             sv == SaveConfig(cfg, outcome)
             after == [Keep(None, <<>>) EXCEPT
                         !.config = cfg,
                         !.genAI = Some(NewGoogleGenAI(apiKey[1])),
                         !.configFile = sv.file,
                         !.savedKey = sv.savedKey]
         IN IF sv.threw
              THEN [after EXCEPT !.err = Some(JsError(<<"writeFile failed">>))]
              ELSE [after EXCEPT !.content =
                      <<TextPart(<<"Gemini API token configured successfully!">>)>>]

\* configureGeminiToken dropping the credentials it holds when it refuses a
\* key.  C26 does not hold of it.
ConfigureGeminiToken_ClearsOnReject(args, outcome) ==
  IF args = None
    THEN Keep(Some(JsError(<<"Cannot destructure property 'apiKey'">>)), <<>>)
  ELSE
    LET apiKey == args[1].apiKey
        parsed == ConfigSchemaParse([isObject |-> TRUE, geminiApiKey |-> apiKey])
    IN IF ~parsed.ok
         THEN [Keep(Some(McpError("InvalidParams", <<"Invalid API key: ", parsed.issue>>)), <<>>)
                 EXCEPT !.config = None, !.genAI = None, !.configSource = "not_configured"]
       ELSE IF outcome = CtorThrows
         THEN [Keep(Some(JsError(<<"GoogleGenAI constructor failed">>)), <<>>)
                 EXCEPT !.config = Some([geminiApiKey |-> apiKey[1]])]
       ELSE
         LET cfg == Some([geminiApiKey |-> apiKey[1]])
             sv == SaveConfig(cfg, outcome)
             after == [Keep(None, <<>>) EXCEPT
                         !.config = cfg,
                         !.genAI = Some(NewGoogleGenAI(apiKey[1])),
                         !.configSource = "config_file",
                         !.configFile = sv.file,
                         !.savedKey = sv.savedKey]
         IN IF sv.threw
              THEN [after EXCEPT !.err = Some(JsError(<<"writeFile failed">>))]
              ELSE [after EXCEPT !.content =
                      <<TextPart(<<"Gemini API token configured successfully!">>)>>]

ConfigureGeminiToken(args, outcome) ==
  IF args = None
    THEN Keep(Some(JsError(<<"Cannot destructure property 'apiKey'">>)), <<>>)
  ELSE
    LET apiKey == args[1].apiKey
        parsed == ConfigSchemaParse([isObject |-> TRUE, geminiApiKey |-> apiKey])
    IN IF ~parsed.ok
         THEN Keep(Some(McpError("InvalidParams", <<"Invalid API key: ", parsed.issue>>)), <<>>)
       ELSE IF outcome = CtorThrows
         THEN [Keep(Some(JsError(<<"GoogleGenAI constructor failed">>)), <<>>)
                 EXCEPT !.config = Some([geminiApiKey |-> apiKey[1]])]
       ELSE
         LET cfg == Some([geminiApiKey |-> apiKey[1]])
             sv == SaveConfig(cfg, outcome)
             after == [Keep(None, <<>>) EXCEPT
                         !.config = cfg,
                         !.genAI = Some(NewGoogleGenAI(apiKey[1])),
                         !.configSource = "config_file",
                         !.configFile = sv.file,
                         !.savedKey = sv.savedKey]
         IN IF sv.threw
              THEN [after EXCEPT !.err = Some(JsError(<<"writeFile failed">>))]
              ELSE [after EXCEPT !.content =
                      <<TextPart(<<"Gemini API token configured successfully!">>)>>]

\* ------------------------------------------------------- ensureConfigured
\* A guard that lets every call through.  C2 does not hold of it.
EnsureConfigured_Off == TRUE

EnsureConfigured == config # None /\ genAI # None

NotConfiguredError ==
  McpError("InvalidRequest",
           <<"Gemini API token not configured. Use configure_gemini_token first.">>)

\* ------------------------------------------------ get_configuration_status
GetConfigurationStatus ==
  LET isConfigured == config # None /\ genAI # None
      sourceInfo ==
        IF isConfigured
          THEN IF configSource = "environment"
                 THEN <<"Source: Environment variable (GEMINI_API_KEY)">>
               ELSE IF configSource = "config_file"
                 THEN <<"Source: Local configuration file (.nano-banana-config.json)">>
               ELSE <<>>
          ELSE <<"Configuration options (in priority order)">>
      statusText ==
        IF isConfigured
          THEN <<"Gemini API token is configured and ready to use">>
          ELSE <<"Gemini API token is not configured">>
  IN Keep(None, <<TextPart(statusText \o sourceInfo)>>)

\* ------------------------------------------------------------------- paths
\* A path is a sequence of string pieces: names, "/" and pieces that end
\* with it, and, from a "." on, the single characters of an extension.
IsSep(piece) == piece \in {"/", "generated_imgs/"}

\* path.extname(filePath): from the last "." of the last path segment to the
\* end; empty when there is no "." or when the segment starts with it.
ExtName(filePath) ==
  LET n == Len(filePath)
      seps == {i \in 1..n : IsSep(filePath[i])}
      start == IF seps = {} THEN 1 ELSE (CHOOSE i \in seps : \A j \in seps : j <= i) + 1
      dots == {i \in start..n : filePath[i] = "."}
  IN IF dots = {} THEN <<>>
     ELSE LET d == CHOOSE i \in dots : \A j \in dots : j <= i
          IN IF d = start THEN <<>> ELSE SubSeq(filePath, d, n)

UpperCase ==
  <<"A", "B", "C", "D", "E", "F", "G", "H", "I", "J", "K", "L", "M",
    "N", "O", "P", "Q", "R", "S", "T", "U", "V", "W", "X", "Y", "Z">>

LowerCase ==
  <<"a", "b", "c", "d", "e", "f", "g", "h", "i", "j", "k", "l", "m",
    "n", "o", "p", "q", "r", "s", "t", "u", "v", "w", "x", "y", "z">>

LowerChar(c) ==
  IF \E i \in 1..Len(UpperCase) : UpperCase[i] = c
    THEN LowerCase[CHOOSE i \in 1..Len(UpperCase) : UpperCase[i] = c]
    ELSE c

\* A variant that leaves the case as it is.  C14 does not hold of it.
ToLowerCase_Same(ext) == ext

\* String.prototype.toLowerCase
ToLowerCase(ext) == [i \in 1..Len(ext) |-> LowerChar(ext[i])]

\* getMimeType(filePath)
GetMimeType(filePath) ==
  LET ext == ToLowerCase(ExtName(filePath))
  IN IF ext \in {<<".", "j", "p", "g">>, <<".", "j", "p", "e", "g">>} THEN "image/jpeg"
     ELSE IF ext = <<".", "p", "n", "g">> THEN "image/png"
     ELSE IF ext = <<".", "w", "e", "b", "p">> THEN "image/webp"
     ELSE "image/jpeg"

\* getImagesDirectory(): no output-directory override, working directory
\* outside the system, temporary and cache paths.
GetImagesDirectory == "generated_imgs/"

\* new Date().toISOString() with ':' and '.' replaced: the wall clock may
\* repeat a value, so a later name may equal an earlier one.
Timestamps == {"t1", "t2"}

\* `${prefix}-${timestamp}-${randomId}.png` joined to the images directory
ImageFilePath(prefix, timestamp) ==
  <<GetImagesDirectory, prefix, "-", timestamp, "-", "r1", ".", "p", "n", "g">>

PathA == <<"a", ".", "p", "n", "g">>

PathB == <<"b", ".", "J", "P", "G">>

PathC == <<"c", ".", "g", "i", "f">>

UserPaths == {PathA, PathB, PathC}

\* more paths of existing files, for their extensions
MimePaths ==
  {<<"photo", ".", "p", "n", "g">>, <<"a", ".", "P", "N", "G">>,
   <<"test", ".", "j", "p", "g">>, <<"a", ".", "J", "p", "g">>,
   <<"a", ".", "j", "p", "e", "g">>, <<"a", ".", "J", "P", "E", "G">>,
   <<"x", ".", "w", "e", "b", "p">>, <<"x", ".", "W", "e", "b", "P">>,
   <<"file", ".", "g", "i", "f">>, <<"noext">>, <<"a", ".">>,
   <<"a", ".", "p", "n", "g", ".", "t", "x", "t">>,
   <<"d", ".", "p", "n", "g", "/", "f">>, <<"d", "/", ".", "p", "n", "g">>}

SavedPaths == {ImageFilePath(pre, t) : pre \in {"generated", "edited"}, t \in Timestamps}

AllPaths == UserPaths \cup SavedPaths \cup MimePaths

\* ------------------------------------------------------- bytes and base64
\* A file's bytes: which bytes (tag), how many, and the file's mtime.  A
\* base64 string: which bytes it encodes, its length and its '=' padding.
Base64Encode(bytes) ==
  [tag |-> bytes.tag, len |-> 4 * ((bytes.size + 2) \div 3),
   pad |-> (3 - (bytes.size % 3)) % 3]

\* Buffer.from(data, 'base64').length
Base64ByteLength(data) == ((data.len * 3) \div 4) - data.pad

\* A string is truthy when it is defined and not empty.
TruthyData(d) == d # None /\ d[1].len > 0

TruthyText(t) == t # None /\ t[1] # ""

\* fs.readFile(path): None when it throws (undefined path, no such file).
ReadFile(pathOpt) ==
  IF pathOpt = None THEN None
  ELSE IF pathOpt[1] \notin DOMAIN disk THEN None
  ELSE disk[pathOpt[1]]

\* ------------------------------------------------------- upstream request
DEFAULT_IMAGE_MODEL ==
  IF env.GEMINI_IMAGE_MODEL = None \/ env.GEMINI_IMAGE_MODEL[1] = ""
    THEN "gemini-2.5-flash-image" ELSE env.GEMINI_IMAGE_MODEL[1]

IsPro == DEFAULT_IMAGE_MODEL = "gemini-3-pro-image-preview"

\* a destructuring default: applied when the argument is undefined
Default(o, d) == IF o = None THEN d ELSE o[1]

\* imageConfig carrying the size whatever the model.  C23 does not hold of it.
ImageConfig_AlwaysSize(aspectRatio, imageSize) ==
  [aspectRatio |-> aspectRatio, imageSize |-> Some(imageSize)]

\* imageConfig: aspectRatio always, imageSize only with the pro model
ImageConfig(aspectRatio, imageSize) ==
  [aspectRatio |-> aspectRatio,
   imageSize |-> IF IsPro THEN Some(imageSize) ELSE None]

InlinePart(bytes, filePath) ==
  [kind |-> "inlineData", data |-> Some(Base64Encode(bytes)),
   mimeType |-> GetMimeType(filePath), text |-> None]

PromptPart(prompt) ==
  [kind |-> "text", data |-> None, mimeType |-> "", text |-> prompt]

\* The loop over referenceImages: a reference that cannot be read is skipped.
\* The loop over referenceImages leaving at the first reference that cannot
\* be read.  C10 does not hold of it.
RECURSIVE ReferenceParts_Break(_)
ReferenceParts_Break(refs) ==
  IF refs = <<>> THEN <<>>
  ELSE LET b == ReadFile(Some(Head(refs)))
       IN IF b = None THEN <<>>
          ELSE <<InlinePart(b[1], Head(refs))>> \o ReferenceParts_Break(Tail(refs))

\* The loop over referenceImages: a reference that cannot be read is skipped.
RECURSIVE ReferenceParts(_)
ReferenceParts(refs) ==
  IF refs = <<>> THEN <<>>
  ELSE LET b == ReadFile(Some(Head(refs)))
       IN (IF b = None THEN <<>> ELSE <<InlinePart(b[1], Head(refs))>>)
            \o ReferenceParts(Tail(refs))

\* ---------------------------------------------------- response processing
\* The loop over response.candidates[0].content.parts of generateImage and
\* editImage.  io.stamps[i] is the timestamp of the i-th part's file name,
\* io.failAt the index of the part whose writeFile throws (0: none) and
\* io.failMode how that write leaves the file.
ImageBytes(data, timestamp) ==
  [tag |-> data.tag, size |-> Base64ByteLength(data), mtime |-> timestamp]

ImagePart(inlineData) ==
  [type |-> "image", data |-> inlineData.data[1],
   mimeType |-> IF inlineData.mimeType = None \/ inlineData.mimeType[1] = ""
                  THEN "image/png" ELSE inlineData.mimeType[1]]

\* The loop recording only the first file it saves as the last image.  C4
\* does not hold of it.
RECURSIVE ProcessParts_KeepFirst(_, _, _, _, _)
ProcessParts_KeepFirst(prefix, parts, io, i, acc) ==
  IF i > Len(parts) \/ acc.threw THEN acc
  ELSE
    LET part == parts[i]
        withText == IF TruthyText(part.text)
                      THEN [acc EXCEPT !.textContent = @ \o <<part.text[1]>>]
                      ELSE acc
    IN IF part.inlineData = None \/ ~TruthyData(part.inlineData[1].data)
         THEN ProcessParts_KeepFirst(prefix, parts, io, i + 1, withText)
       ELSE
         LET data == part.inlineData[1].data[1]
             filePath == ImageFilePath(prefix, io.stamps[i])
             bytes == ImageBytes(data, io.stamps[i])
         IN IF io.failAt = i
              THEN [withText EXCEPT
                      !.threw = TRUE,
                      !.disk[filePath] =
                         IF io.failMode = "fail_truncated"
                           THEN Some([tag |-> "", size |-> 0, mtime |-> io.stamps[i]])
                           ELSE @]
              ELSE ProcessParts_KeepFirst(prefix, parts, io, i + 1,
                     [withText EXCEPT
                        !.disk[filePath] = Some(bytes),
                        !.savedFiles = Append(@, [path |-> filePath, bytes |-> bytes.size]),
                        !.lastImagePath = IF withText.savedFiles = <<>>
                                            THEN Some(filePath) ELSE @,
                        !.content = Append(@, ImagePart(part.inlineData[1]))])

\* The loop assigning lastImagePath before it writes the file.  C19 does not
\* hold of it.
RECURSIVE ProcessParts_AssignFirst(_, _, _, _, _)
ProcessParts_AssignFirst(prefix, parts, io, i, acc) ==
  IF i > Len(parts) \/ acc.threw THEN acc
  ELSE
    LET part == parts[i]
        withText == IF TruthyText(part.text)
                      THEN [acc EXCEPT !.textContent = @ \o <<part.text[1]>>]
                      ELSE acc
    IN IF part.inlineData = None \/ ~TruthyData(part.inlineData[1].data)
         THEN ProcessParts_AssignFirst(prefix, parts, io, i + 1, withText)
       ELSE
         LET data == part.inlineData[1].data[1]
             filePath == ImageFilePath(prefix, io.stamps[i])
             bytes == ImageBytes(data, io.stamps[i])
         IN IF io.failAt = i
              THEN [withText EXCEPT
                      !.threw = TRUE,
                      !.lastImagePath = Some(filePath),
                      !.disk[filePath] =
                         IF io.failMode = "fail_truncated"
                           THEN Some([tag |-> "", size |-> 0, mtime |-> io.stamps[i]])
                           ELSE @]
              ELSE ProcessParts_AssignFirst(prefix, parts, io, i + 1,
                     [withText EXCEPT
                        !.disk[filePath] = Some(bytes),
                        !.savedFiles = Append(@, [path |-> filePath, bytes |-> bytes.size]),
                        !.lastImagePath = Some(filePath),
                        !.content = Append(@, ImagePart(part.inlineData[1]))])

RECURSIVE ProcessParts(_, _, _, _, _)
ProcessParts(prefix, parts, io, i, acc) ==
  IF i > Len(parts) \/ acc.threw THEN acc
  ELSE
    LET part == parts[i]
        withText == IF TruthyText(part.text)
                      THEN [acc EXCEPT !.textContent = @ \o <<part.text[1]>>]
                      ELSE acc
    IN IF part.inlineData = None \/ ~TruthyData(part.inlineData[1].data)
         THEN ProcessParts(prefix, parts, io, i + 1, withText)
       ELSE
         LET data == part.inlineData[1].data[1]
             filePath == ImageFilePath(prefix, io.stamps[i])
             bytes == ImageBytes(data, io.stamps[i])
         IN IF io.failAt = i
              THEN [withText EXCEPT
                      !.threw = TRUE,
                      !.disk[filePath] =
                         IF io.failMode = "fail_truncated"
                           THEN Some([tag |-> "", size |-> 0, mtime |-> io.stamps[i]])
                           ELSE @]
              ELSE ProcessParts(prefix, parts, io, i + 1,
                     [withText EXCEPT
                        !.disk[filePath] = Some(bytes),
                        !.savedFiles = Append(@, [path |-> filePath, bytes |-> bytes.size]),
                        !.lastImagePath = Some(filePath),
                        !.content = Append(@, ImagePart(part.inlineData[1]))])

RECURSIVE PathList(_)
PathList(paths) ==
  IF paths = <<>> THEN <<>> ELSE <<"- ">> \o Head(paths) \o PathList(Tail(paths))

RECURSIVE SavedPathsOf(_)
SavedPathsOf(saved) ==
  IF saved = <<>> THEN <<>> ELSE <<Head(saved).path>> \o SavedPathsOf(Tail(saved))

ModelInfo == IF IsPro THEN "Gemini 3 Pro Image" ELSE "Gemini 2.5 Flash Image"

\* The tail of the status text shared by generateImage and editImage.
StatusTail(imageSize, textContent, savedFiles, savedNote, noneNote) ==
  (IF IsPro THEN <<"Resolution: ", imageSize>> ELSE <<>>)
  \o (IF textContent # <<>> THEN <<"Description: ">> \o textContent ELSE <<>>)
  \o (IF Len(savedFiles) > 0
        THEN <<savedNote>> \o PathList(SavedPathsOf(savedFiles))
             \o <<"To check current image info, use: get_last_image_info">>
        ELSE <<noneNote>>)

\* The part of generateImage and editImage after the request is built: the
\* upstream call, mkdir, the loop over the parts, the returned content.
\* up: what generateContent does (throws, or returns parts, None when the
\* response has no candidates[0].content.parts).
\* A response without a saved image treated as a failure.  C13 does not hold
\* of it.
CallAndSave_NoImageFails(prefix, failText, request, up, io, head, imageSize, savedNote, noneNote) ==
  IF genAI = None
    THEN Keep(Some(McpError("InternalError",
                <<failText, "Cannot read properties of null (reading 'models')">>)), <<>>)
  ELSE IF up.throws
    THEN [Keep(Some(McpError("InternalError", <<failText, up.message>>)), <<>>)
            EXCEPT !.requests = <<request>>]
  ELSE IF ~io.mkdir
    THEN [Keep(Some(McpError("InternalError", <<failText, "mkdir failed">>)), <<>>)
            EXCEPT !.requests = <<request>>]
  ELSE
    LET acc == ProcessParts(prefix, IF up.parts = None THEN <<>> ELSE up.parts[1], io, 1,
                 [threw |-> FALSE, textContent |-> <<>>, disk |-> disk,
                  savedFiles |-> <<>>, lastImagePath |-> lastImagePath, content |-> <<>>])
        after == [Keep(None, <<>>) EXCEPT
                    !.requests = <<request>>, !.disk = acc.disk,
                    !.lastImagePath = acc.lastImagePath, !.saved = acc.savedFiles]
    IN IF acc.threw
         THEN [after EXCEPT !.err =
                 Some(McpError("InternalError", <<failText, "writeFile failed">>))]
       ELSE IF acc.savedFiles = <<>>
         THEN [after EXCEPT !.err =
                 Some(McpError("InternalError", <<failText, "no image in response">>))]
         ELSE [after EXCEPT !.content =
                 <<TextPart(head \o StatusTail(imageSize, acc.textContent, acc.savedFiles,
                                               savedNote, noneNote))>> \o acc.content]

\* The status text pushed after the images instead of unshifted before
\* them.  C12 does not hold of it.
CallAndSave_TextLast(prefix, failText, request, up, io, head, imageSize, savedNote, noneNote) ==
  IF genAI = None
    THEN Keep(Some(McpError("InternalError",
                <<failText, "Cannot read properties of null (reading 'models')">>)), <<>>)
  ELSE IF up.throws
    THEN [Keep(Some(McpError("InternalError", <<failText, up.message>>)), <<>>)
            EXCEPT !.requests = <<request>>]
  ELSE IF ~io.mkdir
    THEN [Keep(Some(McpError("InternalError", <<failText, "mkdir failed">>)), <<>>)
            EXCEPT !.requests = <<request>>]
  ELSE
    LET acc == ProcessParts(prefix, IF up.parts = None THEN <<>> ELSE up.parts[1], io, 1,
                 [threw |-> FALSE, textContent |-> <<>>, disk |-> disk,
                  savedFiles |-> <<>>, lastImagePath |-> lastImagePath, content |-> <<>>])
        after == [Keep(None, <<>>) EXCEPT
                    !.requests = <<request>>, !.disk = acc.disk,
                    !.lastImagePath = acc.lastImagePath, !.saved = acc.savedFiles]
    IN IF acc.threw
         THEN [after EXCEPT !.err =
                 Some(McpError("InternalError", <<failText, "writeFile failed">>))]
         ELSE [after EXCEPT !.content =
                 acc.content \o
                 <<TextPart(head \o StatusTail(imageSize, acc.textContent, acc.savedFiles,
                                               savedNote, noneNote))>>]

\* The call sent a second time when the first attempt throws.  C22 does not
\* hold of it.
CallAndSave_Retry(prefix, failText, request, up, io, head, imageSize, savedNote, noneNote) ==
  IF genAI = None
    THEN Keep(Some(McpError("InternalError",
                <<failText, "Cannot read properties of null (reading 'models')">>)), <<>>)
  ELSE IF up.throws
    THEN [Keep(Some(McpError("InternalError", <<failText, up.message>>)), <<>>)
            EXCEPT !.requests = <<request, request>>]
  ELSE IF ~io.mkdir
    THEN [Keep(Some(McpError("InternalError", <<failText, "mkdir failed">>)), <<>>)
            EXCEPT !.requests = <<request>>]
  ELSE
    LET acc == ProcessParts(prefix, IF up.parts = None THEN <<>> ELSE up.parts[1], io, 1,
                 [threw |-> FALSE, textContent |-> <<>>, disk |-> disk,
                  savedFiles |-> <<>>, lastImagePath |-> lastImagePath, content |-> <<>>])
        after == [Keep(None, <<>>) EXCEPT
                    !.requests = <<request>>, !.disk = acc.disk,
                    !.lastImagePath = acc.lastImagePath, !.saved = acc.savedFiles]
    IN IF acc.threw
         THEN [after EXCEPT !.err =
                 Some(McpError("InternalError", <<failText, "writeFile failed">>))]
         ELSE [after EXCEPT !.content =
                 <<TextPart(head \o StatusTail(imageSize, acc.textContent, acc.savedFiles,
                                               savedNote, noneNote))>> \o acc.content]

CallAndSave(prefix, failText, request, up, io, head, imageSize, savedNote, noneNote) ==
  IF genAI = None
    THEN Keep(Some(McpError("InternalError",
                <<failText, "Cannot read properties of null (reading 'models')">>)), <<>>)
  ELSE IF up.throws
    THEN [Keep(Some(McpError("InternalError", <<failText, up.message>>)), <<>>)
            EXCEPT !.requests = <<request>>]
  ELSE IF ~io.mkdir
    THEN [Keep(Some(McpError("InternalError", <<failText, "mkdir failed">>)), <<>>)
            EXCEPT !.requests = <<request>>]
  ELSE
    LET acc == ProcessParts(prefix, IF up.parts = None THEN <<>> ELSE up.parts[1], io, 1,
                 [threw |-> FALSE, textContent |-> <<>>, disk |-> disk,
                  savedFiles |-> <<>>, lastImagePath |-> lastImagePath, content |-> <<>>])
        after == [Keep(None, <<>>) EXCEPT
                    !.requests = <<request>>, !.disk = acc.disk,
                    !.lastImagePath = acc.lastImagePath, !.saved = acc.savedFiles]
    IN IF acc.threw
         THEN [after EXCEPT !.err =
                 Some(McpError("InternalError", <<failText, "writeFile failed">>))]
         ELSE [after EXCEPT !.content =
                 <<TextPart(head \o StatusTail(imageSize, acc.textContent, acc.savedFiles,
                                               savedNote, noneNote))>> \o acc.content]

\* ------------------------------------------------------------ generate_image
GenerateImage(args, up, io) ==
  IF ~EnsureConfigured THEN Keep(Some(NotConfiguredError), <<>>)
  ELSE IF args = None
    THEN Keep(Some(JsError(<<"Cannot destructure property 'prompt'">>)), <<>>)
  ELSE
    LET prompt == args[1].prompt
        aspectRatio == Default(args[1].aspectRatio, "4:3")
        imageSize == Default(args[1].imageSize, "1K")
        request == [model |-> DEFAULT_IMAGE_MODEL,
                    contents |-> [kind |-> "string", text |-> prompt, parts |-> <<>>],
                    imageConfig |-> ImageConfig(aspectRatio, imageSize)]
    IN CallAndSave("generated", "Failed to generate image: ", request, up, io,
         <<"Image generated with nano-banana (", ModelInfo, ")! Prompt: ", ToStr(prompt),
           "Aspect Ratio: ", aspectRatio>>,
         imageSize, "Image saved to:",
         "Note: No image was generated. The model may have returned only text.")

\* ---------------------------------------------------------------- edit_image
\* editImage skipping a primary image it cannot read, as it skips a
\* reference.  C18 does not hold of it.
EditImage_SkipsPrimary(args, up, io) ==
  IF ~EnsureConfigured THEN Keep(Some(NotConfiguredError), <<>>)
  ELSE IF args = None
    THEN Keep(Some(JsError(<<"Cannot destructure property 'imagePath'">>)), <<>>)
  ELSE
    LET imagePath == args[1].imagePath
        prompt == args[1].prompt
        referenceImages == args[1].referenceImages
        aspectRatio == Default(args[1].aspectRatio, "4:3")
        imageSize == Default(args[1].imageSize, "1K")
        imageBuffer == ReadFile(imagePath)
    IN LET imageParts ==
               (IF imageBuffer = None THEN <<>>
                ELSE <<InlinePart(imageBuffer[1], imagePath[1])>>)
               \o (IF referenceImages # None /\ Len(referenceImages[1]) > 0
                     THEN ReferenceParts(referenceImages[1]) ELSE <<>>)
               \o <<PromptPart(prompt)>>
             request == [model |-> DEFAULT_IMAGE_MODEL,
                         contents |-> [kind |-> "parts", text |-> None, parts |-> imageParts],
                         imageConfig |-> ImageConfig(aspectRatio, imageSize)]
         IN CallAndSave("edited", "Failed to edit image: ", request, up, io,
              <<"Image edited with nano-banana (", ModelInfo, ")! Original: ">>
                \o (IF imagePath = None THEN <<>> ELSE imagePath[1])
                \o <<"Edit prompt: ", ToStr(prompt), "Aspect Ratio: ", aspectRatio>>
                \o (IF referenceImages # None /\ Len(referenceImages[1]) > 0
                      THEN <<"Reference images used:">> \o PathList(referenceImages[1])
                      ELSE <<>>),
              imageSize, "Edited image saved to:",
              "Note: No edited image was generated.")

EditImage(args, up, io) ==
  IF ~EnsureConfigured THEN Keep(Some(NotConfiguredError), <<>>)
  ELSE IF args = None
    THEN Keep(Some(JsError(<<"Cannot destructure property 'imagePath'">>)), <<>>)
  ELSE
    LET imagePath == args[1].imagePath
        prompt == args[1].prompt
        referenceImages == args[1].referenceImages
        aspectRatio == Default(args[1].aspectRatio, "4:3")
        imageSize == Default(args[1].imageSize, "1K")
        imageBuffer == ReadFile(imagePath)
    IN IF imageBuffer = None
         THEN Keep(Some(McpError("InternalError",
                 <<"Failed to edit image: ", "readFile failed">>)), <<>>)
       ELSE
         LET imageParts ==
               <<InlinePart(imageBuffer[1], imagePath[1])>>
               \o (IF referenceImages # None /\ Len(referenceImages[1]) > 0
                     THEN ReferenceParts(referenceImages[1]) ELSE <<>>)
               \o <<PromptPart(prompt)>>
             request == [model |-> DEFAULT_IMAGE_MODEL,
                         contents |-> [kind |-> "parts", text |-> None, parts |-> imageParts],
                         imageConfig |-> ImageConfig(aspectRatio, imageSize)]
         IN CallAndSave("edited", "Failed to edit image: ", request, up, io,
              <<"Image edited with nano-banana (", ModelInfo, ")! Original: ">>
                \o imagePath[1]
                \o <<"Edit prompt: ", ToStr(prompt), "Aspect Ratio: ", aspectRatio>>
                \o (IF referenceImages # None /\ Len(referenceImages[1]) > 0
                      THEN <<"Reference images used:">> \o PathList(referenceImages[1])
                      ELSE <<>>),
              imageSize, "Edited image saved to:",
              "Note: No edited image was generated.")

\* ---------------------------------------------------------- continue_editing
\* continueEditing clearing lastImagePath when its file is gone.  C17 does
\* not hold of it.
ContinueEditing_ClearsStale(args, up, io) ==
  IF ~EnsureConfigured THEN Keep(Some(NotConfiguredError), <<>>)
  ELSE IF lastImagePath = None
    THEN Keep(Some(McpError("InvalidRequest",
            <<"No previous image found. Please generate or edit an image first, then use continue_editing for subsequent edits.">>)), <<>>)
  ELSE IF args = None
    THEN Keep(Some(JsError(<<"Cannot destructure property 'prompt'">>)), <<>>)
  ELSE IF ReadFile(lastImagePath) = None
    THEN [Keep(Some(McpError("InvalidRequest",
             <<"Last image file not found at: ">> \o lastImagePath[1]
               \o <<". Please generate a new image first.">>)), <<>>)
            EXCEPT !.lastImagePath = None]
  ELSE EditImage(Some([apiKey |-> None,
                       imagePath |-> lastImagePath,
                       prompt |-> args[1].prompt,
                       referenceImages |-> args[1].referenceImages,
                       aspectRatio |-> args[1].aspectRatio,
                       imageSize |-> args[1].imageSize]), up, io)

\* continueEditing that does not pass aspectRatio and imageSize on.  C16 does
\* not hold of it.
ContinueEditing_DropsOptions(args, up, io) ==
  IF ~EnsureConfigured THEN Keep(Some(NotConfiguredError), <<>>)
  ELSE IF lastImagePath = None
    THEN Keep(Some(McpError("InvalidRequest",
            <<"No previous image found. Please generate or edit an image first, then use continue_editing for subsequent edits.">>)), <<>>)
  ELSE IF args = None
    THEN Keep(Some(JsError(<<"Cannot destructure property 'prompt'">>)), <<>>)
  ELSE IF ReadFile(lastImagePath) = None
    THEN Keep(Some(McpError("InvalidRequest",
            <<"Last image file not found at: ">> \o lastImagePath[1]
              \o <<". Please generate a new image first.">>)), <<>>)
  ELSE EditImage(Some([apiKey |-> None,
                       imagePath |-> lastImagePath,
                       prompt |-> args[1].prompt,
                       referenceImages |-> args[1].referenceImages,
                       aspectRatio |-> None,
                       imageSize |-> None]), up, io)

\* continueEditing looking for the previous image before the credentials.
\* C3 does not hold of it.
ContinueEditing_ImageFirst(args, up, io) ==
  IF lastImagePath = None
    THEN Keep(Some(McpError("InvalidRequest",
            <<"No previous image found. Please generate or edit an image first, then use continue_editing for subsequent edits.">>)), <<>>)
  ELSE IF ~EnsureConfigured THEN Keep(Some(NotConfiguredError), <<>>)
  ELSE IF args = None
    THEN Keep(Some(JsError(<<"Cannot destructure property 'prompt'">>)), <<>>)
  ELSE IF ReadFile(lastImagePath) = None
    THEN Keep(Some(McpError("InvalidRequest",
            <<"Last image file not found at: ">> \o lastImagePath[1]
              \o <<". Please generate a new image first.">>)), <<>>)
  ELSE EditImage(Some([apiKey |-> None,
                       imagePath |-> lastImagePath,
                       prompt |-> args[1].prompt,
                       referenceImages |-> args[1].referenceImages,
                       aspectRatio |-> args[1].aspectRatio,
                       imageSize |-> args[1].imageSize]), up, io)

ContinueEditing(args, up, io) ==
  IF ~EnsureConfigured THEN Keep(Some(NotConfiguredError), <<>>)
  ELSE IF lastImagePath = None
    THEN Keep(Some(McpError("InvalidRequest",
            <<"No previous image found. Please generate or edit an image first, then use continue_editing for subsequent edits.">>)), <<>>)
  ELSE IF args = None
    THEN Keep(Some(JsError(<<"Cannot destructure property 'prompt'">>)), <<>>)
  ELSE IF ReadFile(lastImagePath) = None
    THEN Keep(Some(McpError("InvalidRequest",
            <<"Last image file not found at: ">> \o lastImagePath[1]
              \o <<". Please generate a new image first.">>)), <<>>)
  ELSE EditImage(Some([apiKey |-> None,
                       imagePath |-> lastImagePath,
                       prompt |-> args[1].prompt,
                       referenceImages |-> args[1].referenceImages,
                       aspectRatio |-> args[1].aspectRatio,
                       imageSize |-> args[1].imageSize]), up, io)

\* continueEditing from the point where `await fs.access(this.lastImagePath)`
\* has resolved: the delegation to editImage, which reads this.lastImagePath
\* again.
ContinueEditingResume(args, up, io) ==
  EditImage(Some([apiKey |-> None,
                  imagePath |-> lastImagePath,
                  prompt |-> args[1].prompt,
                  referenceImages |-> args[1].referenceImages,
                  aspectRatio |-> args[1].aspectRatio,
                  imageSize |-> args[1].imageSize]), up, io)

\* ------------------------------------------------------- get_last_image_info
\* Math.round(stats.size / 1024)
RoundKB(size) == (size + 512) \div 1024

\* getLastImageInfo forgetting a path whose file is gone.  C11 does not hold
\* of it.
GetLastImageInfo_Forget ==
  IF lastImagePath = None
    THEN Keep(None, <<TextPart(<<"No previous image found.">>)>>)
  ELSE
    LET stats == ReadFile(lastImagePath)
    IN IF stats = None
         THEN [Keep(None, <<TextPart(<<"Last Image Information: Path: ">> \o lastImagePath[1]
                                       \o <<"Status: File not found">>)>>)
                 EXCEPT !.lastImagePath = None]
         ELSE Keep(None, <<TextPart(<<"Last Image Information: Path: ">> \o lastImagePath[1]
                                      \o <<"File Size: ", ToString(RoundKB(stats[1].size)), " KB",
                                           "Last Modified: ", stats[1].mtime>>)>>)

GetLastImageInfo ==
  IF lastImagePath = None
    THEN Keep(None, <<TextPart(<<"No previous image found.">>)>>)
  ELSE
    LET stats == ReadFile(lastImagePath)
    IN IF stats = None
         THEN Keep(None, <<TextPart(<<"Last Image Information: Path: ">> \o lastImagePath[1]
                                      \o <<"Status: File not found">>)>>)
         ELSE Keep(None, <<TextPart(<<"Last Image Information: Path: ">> \o lastImagePath[1]
                                      \o <<"File Size: ", ToString(RoundKB(stats[1].size)), " KB",
                                           "Last Modified: ", stats[1].mtime>>)>>)

\* ------------------------------------------------------------- dispatcher
\* The catch of the CallToolRequestSchema handler.
\* A catch that drops the message of the error it wraps.  C15 does not hold
\* of it.
WrapError_Bare(error) ==
  IF error.mcp THEN error
  ELSE McpError("InternalError", <<"Tool execution failed">>)

\* A catch that wraps every error.  C9 does not hold of it.
WrapError_All(error) ==
  McpError("InternalError", <<"Tool execution failed: ">> \o error.message)

\* The catch of the CallToolRequestSchema handler.
WrapError(error) ==
  IF error.mcp THEN error
  ELSE McpError("InternalError", <<"Tool execution failed: ">> \o error.message)

\* The switch on request.params.name, inside the try.
Handler(name, args, nd) ==
  CASE name = "configure_gemini_token" -> ConfigureGeminiToken(args, nd.save)
    [] name = "generate_image" -> GenerateImage(args, nd.up, nd.io)
    [] name = "edit_image" -> EditImage(args, nd.up, nd.io)
    [] name = "get_configuration_status" -> GetConfigurationStatus
    [] name = "continue_editing" -> ContinueEditing(args, nd.up, nd.io)
    [] name = "get_last_image_info" -> GetLastImageInfo
    [] OTHER -> Keep(Some(McpError("MethodNotFound", <<"Unknown tool: ", name>>)), <<>>)

Dispatch(name, args, nd) ==
  LET r == Handler(name, args, nd)
  IN IF r.err = None THEN [r EXCEPT !.raised = None]
     ELSE [r EXCEPT !.raised = r.err, !.err = Some(WrapError(r.err[1]))]

\* The dispatcher's catch around the rest of a continue_editing call.
DispatchResume(args, nd) ==
  LET r == ContinueEditingResume(args, nd.up, nd.io)
  IN IF r.err = None THEN [r EXCEPT !.raised = None]
     ELSE [r EXCEPT !.raised = r.err, !.err = Some(WrapError(r.err[1]))]

\* ------------------------------------------------------------- loadConfig
\* loadConfig(): the session fields after it and whether it read the file.
\* loadConfig trying the configuration file before the environment.  C6 does
\* not hold of it.
LoadConfigResult_FileFirst ==
  LET envApiKey == env.GEMINI_API_KEY
      fromEnv == ConfigSchemaParse([isObject |-> TRUE, geminiApiKey |-> envApiKey])
      parsedConfig == IF configFile = None THEN None ELSE JSONParse(configFile[1])
      fromFile == IF parsedConfig = None
                    THEN [ok |-> FALSE, issue |-> "", config |-> None]
                    ELSE ConfigSchemaParse(parsedConfig[1])
  IN IF fromFile.ok
       THEN [config |-> fromFile.config,
             genAI |-> Some(NewGoogleGenAI(fromFile.config[1].geminiApiKey)),
             configSource |-> "config_file", readFile |-> TRUE]
     ELSE IF envApiKey # None /\ envApiKey[1] # <<>> /\ fromEnv.ok
       THEN [config |-> fromEnv.config,
             genAI |-> Some(NewGoogleGenAI(fromEnv.config[1].geminiApiKey)),
             configSource |-> "environment", readFile |-> TRUE]
     ELSE [config |-> config, genAI |-> genAI,
           configSource |-> "not_configured", readFile |-> TRUE]

LoadConfigResult ==
  LET envApiKey == env.GEMINI_API_KEY
      fromEnv == ConfigSchemaParse([isObject |-> TRUE, geminiApiKey |-> envApiKey])
      parsedConfig == IF configFile = None THEN None ELSE JSONParse(configFile[1])
      fromFile == IF parsedConfig = None
                    THEN [ok |-> FALSE, issue |-> "", config |-> None]
                    ELSE ConfigSchemaParse(parsedConfig[1])
  IN IF envApiKey # None /\ envApiKey[1] # <<>> /\ fromEnv.ok
       THEN [config |-> fromEnv.config,
             genAI |-> Some(NewGoogleGenAI(fromEnv.config[1].geminiApiKey)),
             configSource |-> "environment", readFile |-> FALSE]
     ELSE IF fromFile.ok
       THEN [config |-> fromFile.config,
             genAI |-> Some(NewGoogleGenAI(fromFile.config[1].geminiApiKey)),
             configSource |-> "config_file", readFile |-> TRUE]
     ELSE [config |-> config, genAI |-> genAI,
           configSource |-> "not_configured", readFile |-> TRUE]

\* loadConfig when every new GoogleGenAI throws: the assignment of
\* this.config before it stays, both catch blocks swallow the error.
LoadConfigCtorThrowsResult ==
  LET envApiKey == env.GEMINI_API_KEY
      fromEnv == ConfigSchemaParse([isObject |-> TRUE, geminiApiKey |-> envApiKey])
      envTried == envApiKey # None /\ envApiKey[1] # <<>> /\ fromEnv.ok
      parsedConfig == IF configFile = None THEN None ELSE JSONParse(configFile[1])
      fromFile == IF parsedConfig = None
                    THEN [ok |-> FALSE, issue |-> "", config |-> None]
                    ELSE ConfigSchemaParse(parsedConfig[1])
  IN [config |-> IF fromFile.ok THEN fromFile.config
                 ELSE IF envTried THEN fromEnv.config
                 ELSE config,
      genAI |-> genAI,
      configSource |-> "not_configured", readFile |-> TRUE]

\* ------------------------------------------------------------------- steps
NoUp == [throws |-> TRUE, message |-> "", parts |-> None]

NoIo == [mkdir |-> TRUE, stamps |-> <<>>, failAt |-> 0, failMode |-> "fail_untouched"]

\* what a call that reaches neither upstream nor the file system is given
NoNd == [save |-> "ok", up |-> NoUp, io |-> NoIo]

NoStep == Step("", None, None, <<>>, <<>>, <<>>, None, NoNd)

\* What is remembered of an answered configure, generate, edit or continue
\* call: the tool, whether it returned, the apiKey argument of a configure
\* call, the last file the call saved.  Nothing is remembered of other steps.
Summary(step) ==
  [tool |-> IF step.tool \in {"configure_gemini_token", "generate_image", "edit_image",
                              "continue_editing"} THEN step.tool ELSE "",
   ok |-> step.err = None,
   apiKey |-> IF step.tool = "configure_gemini_token" /\ step.args # None
                THEN step.args[1].apiKey ELSE None,
   saved |-> IF step.saved = <<>> THEN None ELSE Some(step.saved[Len(step.saved)])]

Args(apiKey, imagePath, prompt, referenceImages, aspectRatio, imageSize) ==
  Some([apiKey |-> apiKey, imagePath |-> imagePath, prompt |-> prompt,
        referenceImages |-> referenceImages, aspectRatio |-> aspectRatio,
        imageSize |-> imageSize])

NoSummary == Summary(NoStep)

LoadStep == Step("loadConfig", None, None, <<>>, <<>>, <<>>, None, NoNd)

\* ----------------------------------------------------------------- actions
\* run(): await this.loadConfig(), then connect the transport.
LoadConfig ==
  /\ pc = "start"
  /\ LET r == LoadConfigResult
     IN /\ config' = r.config
        /\ genAI' = r.genAI
        /\ configSource' = r.configSource
        /\ configReads' = configReads + (IF r.readFile THEN 1 ELSE 0)
  /\ pc' = "idle"
  /\ last' = LoadStep
  /\ prev' = NoSummary
  /\ UNCHANGED <<env, lastImagePath, configFile, disk, savedKey, pending>>

\* run() when new GoogleGenAI throws inside loadConfig.
LoadConfigCtorThrows ==
  /\ pc = "start"
  /\ LET r == LoadConfigCtorThrowsResult
     IN /\ config' = r.config
        /\ genAI' = r.genAI
        /\ configSource' = r.configSource
        /\ configReads' = configReads + (IF r.readFile THEN 1 ELSE 0)
  /\ pc' = "idle"
  /\ last' = LoadStep
  /\ prev' = NoSummary
  /\ UNCHANGED <<env, lastImagePath, configFile, disk, savedKey, pending>>

\* The process ends and a new one starts: new NanoBananaMCP().
Restart ==
  /\ pc = "idle"
  /\ pc' = "start"
  /\ config' = None
  /\ genAI' = None
  /\ lastImagePath' = None
  /\ configSource' = "not_configured"
  /\ configReads' = 0
  /\ last' = NoStep
  /\ prev' = NoSummary
  /\ UNCHANGED <<env, configFile, disk, savedKey, pending>>

\* One call_tool request, from the dispatcher's switch to the result or the
\* error it ends with.
CallTool(name, args, nd) ==
  /\ \E r \in {Dispatch(name, args, nd)} :
        /\ config' = r.config
        /\ genAI' = r.genAI
        /\ configSource' = r.configSource
        /\ lastImagePath' = r.lastImagePath
        /\ configFile' = r.configFile
        /\ disk' = r.disk
        /\ savedKey' = r.savedKey
        /\ last' = Step(name, args, r.err, r.content, r.requests, r.saved, r.raised, nd)
  /\ pc' = "responding"
  /\ UNCHANGED <<env, configReads, prev, pending>>

\* The transport sends the result or the error; the server awaits the next request.
Respond ==
  /\ pc = "responding"
  /\ pc' = "idle"
  /\ prev' = Summary(last)
  /\ last' = NoStep
  /\ UNCHANGED <<pending, env, config, genAI, lastImagePath, configSource, configFile, disk,
                 configReads, savedKey>>

\* Somebody moves or deletes a saved image file.
Unlink(p) ==
  /\ pc = "idle"
  /\ disk[p] # None
  /\ disk' = [disk EXCEPT ![p] = None]
  /\ last' = NoStep
  /\ prev' = NoSummary
  /\ UNCHANGED <<pending, env, pc, config, genAI, lastImagePath, configSource, configFile,
                 configReads, savedKey>>

ConfigureCall(args, outcome) ==
  /\ pc = "idle"
  /\ CallTool("configure_gemini_token", args, [save |-> outcome, up |-> NoUp, io |-> NoIo])

GenerateCall(args, up, io) ==
  /\ pc = "idle"
  /\ CallTool("generate_image", args, [save |-> "ok", up |-> up, io |-> io])

EditCall(args, up, io) ==
  /\ pc = "idle"
  /\ CallTool("edit_image", args, [save |-> "ok", up |-> up, io |-> io])

ContinueCall(args, up, io) ==
  /\ pc = "idle"
  /\ CallTool("continue_editing", args, [save |-> "ok", up |-> up, io |-> io])

\* continue_editing up to `await fs.access(this.lastImagePath)`: the guards
\* pass, the file is there, and the call is suspended while the event loop
\* serves other requests.
ContinueSuspend(args) ==
  /\ pc = "idle"
  /\ pending = None
  /\ EnsureConfigured
  /\ lastImagePath # None
  /\ args # None
  /\ ReadFile(lastImagePath) # None
  /\ pending' = Some([args |-> args, verified |-> lastImagePath[1]])
  /\ UNCHANGED <<env, pc, config, genAI, lastImagePath, configSource, configFile, disk,
                 configReads, savedKey, last, prev>>

\* The suspended continue_editing call goes on after its await and ends.
ContinueResume(up, io) ==
  /\ pc = "idle"
  /\ pending # None
  /\ LET nd == [save |-> "ok", up |-> up, io |-> io]
         args == pending[1].args
     IN \E r \in {DispatchResume(args, nd)} :
          /\ config' = r.config
          /\ genAI' = r.genAI
          /\ configSource' = r.configSource
          /\ lastImagePath' = r.lastImagePath
          /\ configFile' = r.configFile
          /\ disk' = r.disk
          /\ savedKey' = r.savedKey
          /\ last' = Step("continue_editing", args, r.err, r.content, r.requests, r.saved,
                          r.raised, nd)
  /\ pc' = "responding"
  /\ pending' = None
  /\ UNCHANGED <<env, configReads, prev>>

StatusCall ==
  /\ pc = "idle"
  /\ CallTool("get_configuration_status", None, NoNd)

InfoCall ==
  /\ pc = "idle"
  /\ CallTool("get_last_image_info", None, NoNd)

\* call_tool with a name that is none of the six tools
UnknownCall(name, args) ==
  /\ pc = "idle"
  /\ CallTool(name, args, NoNd)

\* ------------------------------------------------------------------ inputs
SeqsUpTo(S, n) == UNION {[1..m -> S] : m \in 0..n}

ToolNames == {"configure_gemini_token", "generate_image", "edit_image",
              "get_configuration_status", "continue_editing", "get_last_image_info"}

UnknownNames == {"frobnicate", "", "Generate_Image"}

ConfigureArgs(keys) ==
  {None} \cup {Args(k, None, None, None, None, None) : k \in {None} \cup {Some(K) : K \in keys}}

\* upstream parts: text only; an image without a mime type; an image with
\* one; inline data that carries no data
UpText == [text |-> Some("d"), inlineData |-> None]

UpImage1 ==
  [text |-> None,
   inlineData |-> Some([data |-> Some([tag |-> "u1", len |-> 4, pad |-> 0]),
                        mimeType |-> None])]

UpImage2 ==
  [text |-> None,
   inlineData |-> Some([data |-> Some([tag |-> "u2", len |-> 684, pad |-> 1]),
                        mimeType |-> Some("image/jpeg")])]

UpNoData ==
  [text |-> None, inlineData |-> Some([data |-> None, mimeType |-> Some("image/png")])]

\* a part with neither text nor inline data
UpEmpty == [text |-> None, inlineData |-> None]

UpThrows == [throws |-> TRUE, message |-> "upstream error", parts |-> None]

UpReturns(parts) == [throws |-> FALSE, message |-> "", parts |-> parts]

Upstream(kinds, n) ==
  {UpThrows, UpReturns(None)} \cup {UpReturns(Some(s)) : s \in SeqsUpTo(kinds, n)}

HasImage(part) == part.inlineData # None /\ TruthyData(part.inlineData[1].data)

\* The ways the file system and the clock can act during one call, given
\* what upstream did.
IoFor(up, timestamps, modes) ==
  IF up.throws THEN {NoIo}
  ELSE
    LET parts == IF up.parts = None THEN <<>> ELSE up.parts[1]
        n == Len(parts)
        stamps == {st \in [1..n -> timestamps] :
                     \A i \in 1..n : ~HasImage(parts[i]) => st[i] = "t1"}
        images == {i \in 1..n : HasImage(parts[i])}
    IN {[mkdir |-> FALSE, stamps |-> [i \in 1..n |-> "t1"], failAt |-> 0,
         failMode |-> "fail_untouched"]}
       \cup {[mkdir |-> TRUE, stamps |-> st, failAt |-> 0, failMode |-> "fail_untouched"] :
               st \in stamps}
       \cup {[mkdir |-> TRUE, stamps |-> st, failAt |-> i, failMode |-> m] :
               st \in stamps, i \in images, m \in modes}

PromptOnly == Args(None, None, Some("p"), None, None, None)

GenerateArgs ==
  {None, Args(None, None, None, None, None, None),
   Args(None, None, Some("p"), None, Some("16:9"), Some("2K"))}

EditOne == Args(None, Some(PathA), Some("p"), None, None, None)

RefLists == {None} \cup {Some(r) : r \in SeqsUpTo(UserPaths, MaxRefs)}

EditArgs ==
  {None,
   PromptOnly,
   Args(None, Some(PathA), None, None, None, None),
   Args(None, Some(PathA), Some("p"), None, Some("16:9"), Some("2K")),
   Args(None, Some(PathC), Some("p"), None, None, None),
   Args(None, Some(PathC), Some("p"), Some(<<PathA>>), None, None)}
  \cup {Args(None, Some(PathA), Some("p"), refs, None, None) : refs \in RefLists}

ContinueArgs ==
  {None,
   Args(None, None, None, None, None, None),
   Args(None, None, Some("p"), None, Some("16:9"), Some("2K"))}
  \cup {Args(None, None, Some("p"), refs, None, None) :
          refs \in {None, Some(<<PathC, PathB>>)}}

\* ------------------------------------------------------------------- Init
NewStep == Step("new", None, None, <<>>, <<>>, <<>>, None, NoNd)

InitDisk ==
  [p \in AllPaths |->
     IF p = PathA THEN Some([tag |-> "a", size |-> 1536, mtime |-> "t0"])
     ELSE IF p = PathB THEN Some([tag |-> "b", size |-> 100, mtime |-> "t0"])
     ELSE IF p \in MimePaths THEN Some([tag |-> "m", size |-> 3, mtime |-> "t0"])
     ELSE None]

\* The state after new NanoBananaMCP(), for the given environment and files.
InitWith(envKeys, models, files) ==
  /\ env \in [GEMINI_API_KEY : envKeys, GEMINI_IMAGE_MODEL : models]
  /\ pc = "start"
  /\ config = None
  /\ genAI = None
  /\ lastImagePath = None
  /\ configSource = "not_configured"
  /\ configFile \in files
  /\ disk = InitDisk
  /\ configReads = 0
  /\ savedKey = None
  /\ last = NewStep
  /\ prev = NoSummary
  /\ pending = None

\* ---------------------------------------- Spec: the credential life cycle
InitFiles ==
  {None, Some(<<>>), Some(<<"null">>), Some(<<"{", "}">>)}
  \cup {Some(JSONStringify([geminiApiKey |-> K])) : K \in {<<>>, <<"k">>}}

Init ==
  InitWith({None, Some(<<>>), Some(<<"k">>), Some(<<" ">>)}, {None}, InitFiles)

OneImage1 == UpReturns(Some(<<UpImage1>>))

OneImage2 == UpReturns(Some(<<UpNoData, UpImage2>>))

\* responses without image data: no candidates, no parts, parts that carry
\* neither text nor data
NoCandidates == UpReturns(None)

NoParts == UpReturns(Some(<<>>))

NoImageParts == UpReturns(Some(<<UpEmpty, UpNoData>>))

\* --------------------------------------- Spec: the credential life cycle
Next ==
  \/ LoadConfig
  \/ Restart
  \/ Respond
  \/ \E a \in ConfigureArgs(Keys), o \in WriteOutcomes : ConfigureCall(a, o)
  \/ StatusCall

Spec == Init /\ [][Next]_vars

\* ------------------------------------------- SpecImages: the image tools
InitImages == InitWith({None}, {None, Some("gemini-3-pro-image-preview")}, {None})

NextImages ==
  \/ LoadConfig
  \/ Respond
  \/ \E p \in SavedPaths : Unlink(p)
  \/ \E a \in ConfigureArgs({<<>>, <<"k">>}) : ConfigureCall(a, "ok")
  \/ StatusCall
  \/ InfoCall
  \/ \E n \in UnknownNames, a \in {None, PromptOnly} : UnknownCall(n, a)
  \/ \E up \in Upstream({UpText, UpImage1, UpImage2}, MaxParts) :
       \E io \in IoFor(up, Timestamps, {"fail_untouched"}) :
         \* responses of several parts are explored with the default model
         env.GEMINI_IMAGE_MODEL = None /\ GenerateCall(PromptOnly, up, io)
  \/ \E a \in GenerateArgs, up \in {UpThrows, OneImage1} :
       \E io \in IoFor(up, {"t1"}, {}) : GenerateCall(a, up, io)
  \/ \E a \in {PromptOnly, EditOne}, up \in {NoCandidates, NoParts, NoImageParts} :
       \E io \in IoFor(up, {"t1"}, {}) : GenerateCall(a, up, io) \/ EditCall(a, up, io)
  \/ \E a \in EditArgs, up \in {UpThrows, OneImage2} :
       \E io \in IoFor(up, {"t1"}, {}) : EditCall(a, up, io)
  \/ \E a \in ContinueArgs, up \in {UpThrows, OneImage1} :
       \E io \in IoFor(up, {"t1"}, {}) : ContinueCall(a, up, io)

SpecImages == InitImages /\ [][NextImages]_vars

\* ------------- SpecCtor: the credential life cycle, new GoogleGenAI may throw
ConfigureOutcomes == WriteOutcomes \cup {CtorThrows}

NextCtor ==
  \/ LoadConfig
  \/ LoadConfigCtorThrows
  \/ Restart
  \/ Respond
  \/ \E a \in ConfigureArgs({<<>>, <<"k">>, <<" ">>}), o \in ConfigureOutcomes :
       ConfigureCall(a, o)
  \/ StatusCall

SpecCtor == Init /\ [][NextCtor]_vars

\* ------------------------- SpecRequest: the request sent to the model
\* values of GEMINI_IMAGE_MODEL: unset, empty, the pro model, another model
ImageModels ==
  {None, Some(""), Some("gemini-3-pro-image-preview"), Some("gemini-3-pro")}

InitRequest == InitWith({Some(<<"k">>)}, ImageModels, {None})

RequestArgs ==
  {Args(None, Some(PathA), Some("p"), None, ar, sz) :
     ar \in {None, Some("16:9")}, sz \in {None, Some("2K"), Some("4K")}}

NextRequest ==
  \/ LoadConfig
  \/ Respond
  \/ \E a \in RequestArgs, up \in {UpThrows, OneImage1} :
       \E io \in IoFor(up, {"t1"}, {}) :
         GenerateCall(a, up, io) \/ EditCall(a, up, io) \/ ContinueCall(a, up, io)

SpecRequest == InitRequest /\ [][NextRequest]_vars

\* ------- SpecInterleave: requests delivered while continue_editing is suspended
InitInterleave == InitWith({Some(<<"k">>)}, {None}, {None})

NextInterleave ==
  \/ LoadConfig
  \/ Respond
  \/ \E up \in {UpThrows, OneImage1, OneImage2} :
       \E io \in IoFor(up, Timestamps, {}) :
         \/ GenerateCall(PromptOnly, up, io)
         \/ EditCall(EditOne, up, io)
         \/ ContinueResume(up, io)
  \/ ContinueSuspend(PromptOnly)
  \/ InfoCall

SpecInterleave == InitInterleave /\ [][NextInterleave]_vars

\* ------------------------------- SpecMime: edit_image over file extensions
InitMime == InitWith({Some(<<"k">>)}, {None}, {None})

MimeArgs ==
  {Args(None, Some(p), Some("p"), Some(<<r>>), None, None) : p \in MimePaths, r \in MimePaths}

NextMime ==
  \/ LoadConfig
  \/ Respond
  \/ \E a \in MimeArgs, up \in {UpThrows, NoParts} :
       \E io \in IoFor(up, {"t1"}, {}) : EditCall(a, up, io)

SpecMime == InitMime /\ [][NextMime]_vars

\* ================================================================== claims
Responding(tool) == pc = "responding" /\ last.tool = tool

\* a call_tool request is answered in this step
Answers(tool) == pc = "idle" /\ pc' = "responding" /\ last'.tool = tool

ConfiguredText ==
  <<"Gemini API token is configured and ready to use",
    "Source: Local configuration file (.nano-banana-config.json)">>

\* C1: configure_gemini_token with a non-empty key, whatever the session
\* state before it and whether or not the record could be saved, followed
\* immediately by get_configuration_status: the status call returns the
\* "configured" text with the local-configuration-file source.
C1_ConfigureThenStatus ==
  (/\ Responding("get_configuration_status")
   /\ prev.tool = "configure_gemini_token"
   /\ prev.apiKey # None
   /\ Len(prev.apiKey[1]) >= 1)
  => /\ last.err = None
     /\ last.content = <<TextPart(ConfiguredText)>>

\* C1 witness: the status call after a configure call in a session that the
\* environment variable had configured.
C1_Witness ==
  /\ Responding("get_configuration_status")
  /\ prev.tool = "configure_gemini_token"
  /\ prev.apiKey # None
  /\ Len(prev.apiKey[1]) >= 1
  /\ env.GEMINI_API_KEY = Some(<<"k">>)
  /\ prev.apiKey[1] # <<"k">>

\* C2: generate_image or edit_image called while credentials are absent ends
\* with an invalid-request error; no file is written and nothing is sent
\* upstream, whatever the arguments.
C2_NotConfiguredRejected ==
  [][(/\ Answers("generate_image") \/ Answers("edit_image")
      /\ config = None)
     => /\ last'.err # None
        /\ last'.err[1].code = "InvalidRequest"
        /\ disk' = disk
        /\ last'.saved = <<>>
        /\ last'.requests = <<>>]_vars

\* C2 witness: edit_image of a path that does not exist, credentials absent.
C2_Witness ==
  /\ Responding("edit_image")
  /\ config = None
  /\ last.args # None
  /\ last.args[1].imagePath = Some(PathC)
  /\ last.err # None

NoPreviousImageText ==
  "No previous image found. Please generate or edit an image first, then use continue_editing for subsequent edits."

\* C3, as claimed: whenever lastImagePath is absent, configured or not,
\* continue_editing ends with an invalid-request error about there being no
\* previous image.
C3_Original ==
  (Responding("continue_editing") /\ lastImagePath = None)
  => /\ last.err # None
     /\ last.err[1].code = "InvalidRequest"
     /\ last.err[1].message = <<NoPreviousImageText>>

\* C3, amended: with lastImagePath absent, continue_editing ends with an
\* invalid-request error; its message is about there being no previous image
\* when the session is configured, and the not-configured message otherwise.
C3_Amended ==
  (Responding("continue_editing") /\ lastImagePath = None)
  => /\ last.err # None
     /\ last.err[1].code = "InvalidRequest"
     /\ last.err[1].message =
          IF config # None THEN <<NoPreviousImageText>> ELSE NotConfiguredError.message

\* C3 witness: continue_editing in a configured session without an image.
C3_Witness ==
  /\ Responding("continue_editing")
  /\ lastImagePath = None
  /\ config # None
  /\ last.args # None

ImageTools == {"generate_image", "edit_image", "continue_editing"}

\* C4: get_last_image_info right after a generate, edit or continue call
\* that returned and saved at least one file: lastImagePath is the last file
\* that call saved, the file exists and holds as many bytes as the call wrote
\* to it, and the text reports that path and that byte count in KB, rounded
\* to the nearest KB (halves up).
C4_InfoAfterSave ==
  (/\ Responding("get_last_image_info")
   /\ prev.tool \in ImageTools
   /\ prev.ok
   /\ prev.saved # None)
  => LET path == prev.saved[1].path
         bytes == prev.saved[1].bytes
     IN /\ lastImagePath = Some(path)
        /\ disk[path] # None
        /\ disk[path][1].size = bytes
        /\ last.err = None
        /\ \E kb \in 0..bytes :
             /\ 1024 * kb - 512 <= bytes
             /\ bytes < 1024 * kb + 512
             /\ last.content =
                  <<TextPart(<<"Last Image Information: Path: ">> \o path
                               \o <<"File Size: ", ToString(kb), " KB",
                                    "Last Modified: ", disk[path][1].mtime>>)>>

\* C4 witness: the info call after a generate call that saved two files
\* under different names.
C4_Witness ==
  /\ Responding("get_last_image_info")
  /\ prev.tool = "generate_image"
  /\ prev.ok
  /\ prev.saved # None
  /\ prev.saved[1].path = ImageFilePath("generated", "t1")
  /\ disk[ImageFilePath("generated", "t2")] # None
  /\ prev.saved[1].bytes = 512

\* loadConfig has just run and no request has been answered since
Started == pc = "idle" /\ last.tool = "loadConfig"

EnvKeySet == env.GEMINI_API_KEY # None /\ env.GEMINI_API_KEY[1] # <<>>

\* C5: a start-up with GEMINI_API_KEY unset, while the file holds the record
\* saveConfig wrote for key K, ends with credentials K, a client built from
\* K and the local-configuration-file source.
C5_SaveLoadRoundTrip ==
  (Started /\ env.GEMINI_API_KEY = None /\ savedKey # None)
  => /\ config = Some([geminiApiKey |-> savedKey[1]])
     /\ genAI # None
     /\ genAI[1].apiKey = savedKey[1]
     /\ configSource = "config_file"

\* C5 witness: a start-up that reads back a saved key holding a double quote
\* and a space.
C5_Witness ==
  /\ Started
  /\ env.GEMINI_API_KEY = None
  /\ savedKey = Some(<<"\"", " ">>)
  /\ configReads = 1

\* the configuration file holds a record with the non-empty key K
HoldsRecord(K) == Len(K) >= 1 /\ configFile = Some(JSONStringify([geminiApiKey |-> K]))

\* C6: after start-up, a non-empty GEMINI_API_KEY is the credential, the
\* source is the environment and the configuration file was not read;
\* otherwise the key of a valid record in the file is the credential and the
\* source is the configuration file; otherwise the session is left
\* not configured, and start-up completes all the same.
C6_StartupPriority ==
  Started =>
    IF EnvKeySet
      THEN /\ config = Some([geminiApiKey |-> env.GEMINI_API_KEY[1]])
           /\ genAI = Some([apiKey |-> env.GEMINI_API_KEY[1]])
           /\ configSource = "environment"
           /\ configReads = 0
    ELSE IF \E K \in Keys : HoldsRecord(K)
      THEN /\ \E K \in Keys : HoldsRecord(K) /\ config = Some([geminiApiKey |-> K])
                                             /\ genAI = Some([apiKey |-> K])
           /\ configSource = "config_file"
    ELSE /\ config = None
         /\ genAI = None
         /\ configSource = "not_configured"

\* C6 witness: a start-up with the environment key set while the file holds
\* a saved record with another key.
C6_Witness ==
  /\ Started
  /\ EnvKeySet
  /\ savedKey # None
  /\ savedKey[1] # env.GEMINI_API_KEY[1]
  /\ configSource = "environment"

\* a key made of whitespace only, the empty key included
Blank(K) == \A i \in 1..Len(K) : K[i] = " "

ConfigureWithKey(K) ==
  /\ Answers("configure_gemini_token")
  /\ last'.args # None
  /\ last'.args[1].apiKey = Some(K)

Rejected ==
  /\ last'.err # None
  /\ last'.err[1].code = "InvalidParams"
  /\ UNCHANGED <<config, genAI, configSource, configFile>>

\* C7, as claimed: configure_gemini_token with an empty or whitespace-only
\* key ends with an invalid-params error and changes neither the
\* credentials, the client, the source nor the configuration file.
C7_Original ==
  [][\A K \in Keys : (Blank(K) /\ ConfigureWithKey(K)) => Rejected]_vars

\* C7, amended: configure_gemini_token with the empty key ends with an
\* invalid-params error and changes neither the credentials, the client, the
\* source nor the configuration file; a whitespace-only key of length one or
\* more is accepted and becomes the credential like any other non-empty key.
C7_Amended ==
  [][\A K \in Keys :
       (Blank(K) /\ ConfigureWithKey(K)) =>
          IF K = <<>> THEN Rejected
          ELSE /\ config' = Some([geminiApiKey |-> K])
               /\ genAI' = Some([apiKey |-> K])
               /\ configSource' = "config_file"
               /\ (last'.err = None \/ last'.err[1].code # "InvalidParams")]_vars

\* C7 witness: the empty key rejected in a session configured from the file.
C7_Witness ==
  /\ Responding("configure_gemini_token")
  /\ last.args # None
  /\ last.args[1].apiKey = Some(<<>>)
  /\ last.err # None
  /\ last.err[1].code = "InvalidParams"
  /\ configSource = "config_file"
  /\ config # None

\* a call of the tool without one of the arguments its inputSchema requires
MissingRequired(tool, args) ==
  \/ /\ tool \in {"generate_image", "continue_editing"}
     /\ args = None \/ args[1].prompt = None
  \/ /\ tool = "edit_image"
     /\ args = None \/ args[1].imagePath = None \/ args[1].prompt = None
  \/ /\ tool = "configure_gemini_token"
     /\ args = None \/ args[1].apiKey = None

\* C8, as claimed: in a configured session, a call of generate_image,
\* edit_image, continue_editing or configure_gemini_token without a required
\* argument ends with an invalid-params error, sends nothing upstream and
\* leaves the session and the files as they were.
C8_MissingArgumentRejected ==
  [][(/\ pc = "idle"
      /\ pc' = "responding"
      /\ config # None
      /\ MissingRequired(last'.tool, last'.args))
     => /\ last'.err # None
        /\ last'.err[1].code = "InvalidParams"
        /\ last'.requests = <<>>
        /\ UNCHANGED <<config, genAI, configSource, lastImagePath, configFile, disk>>]_vars

\* C9: a call of a tool name outside the six registered ones ends with the
\* method-not-found error "Unknown tool: <name>", not wrapped into an
\* internal error; no handler acts: nothing is sent upstream, nothing is
\* saved and the session and the files stay as they were.
C9_UnknownTool ==
  [][(pc = "idle" /\ pc' = "responding" /\ last'.tool \notin ToolNames)
     => /\ last'.err = Some([mcp |-> TRUE, code |-> "MethodNotFound",
                             message |-> <<"Unknown tool: ", last'.tool>>])
        /\ last'.content = <<>>
        /\ last'.requests = <<>>
        /\ last'.saved = <<>>
        /\ UNCHANGED <<config, genAI, configSource, lastImagePath, configFile,
                       disk, savedKey>>]_vars

\* C9 witness: an unknown name, differing from a registered one by case
\* only, called in a configured session.
C9_Witness ==
  /\ pc = "responding"
  /\ last.tool = "Generate_Image"
  /\ last.args # None
  /\ config # None
  /\ last.err # None

IsReadable(p) == disk[p] # None

\* C10: edit_image in a configured session with a readable primary image:
\* exactly one request goes upstream, whichever references cannot be read;
\* its parts are the primary image, then the readable references in the
\* order given, then the prompt text; and the call fails only when the
\* upstream call or the saving of its result fails.
C10_UnreadableReferencesSkipped ==
  [][(/\ Answers("edit_image")
      /\ config # None
      /\ last'.args # None
      /\ last'.args[1].imagePath # None
      /\ IsReadable(last'.args[1].imagePath[1]))
     => LET a == last'.args[1]
            refs == IF a.referenceImages = None THEN <<>> ELSE a.referenceImages[1]
            readable == SelectSeq(refs, IsReadable)
        IN /\ Len(last'.requests) = 1
           /\ LET parts == last'.requests[1].contents.parts
              IN /\ Len(parts) = Len(readable) + 2
                 /\ parts[1] = InlinePart(disk[a.imagePath[1]][1], a.imagePath[1])
                 /\ \A i \in 1..Len(readable) :
                      parts[i + 1] = InlinePart(disk[readable[i]][1], readable[i])
                 /\ parts[Len(parts)] = [kind |-> "text", data |-> None,
                                         mimeType |-> "", text |-> a.prompt]
           /\ \/ last'.err = None
              \/ /\ last'.err[1].code = "InternalError"
                 /\ last'.err[1].message[2] \in {"upstream error", "mkdir failed",
                                                 "writeFile failed"}]_vars

\* C10 witness: an edit that returned, its references an unreadable path
\* followed by a readable one.
C10_Witness ==
  /\ Responding("edit_image")
  /\ last.err = None
  /\ last.args[1].referenceImages = Some(<<PathC, PathB>>)
  /\ Len(last.requests) = 1
  /\ Len(last.requests[1].contents.parts) = 3

\* what the tool would return if it were called in this state
StatusNow == GetConfigurationStatus.content

InfoNow == GetLastImageInfo.content

\* C11: a get_configuration_status or get_last_image_info call never ends
\* with an error, leaves credentials, client, source, lastImagePath and the
\* files as they were, and returns the content that the same call returns
\* when it is made again in the state it leaves.
C11_ReadsIdempotent ==
  [][(Answers("get_configuration_status") \/ Answers("get_last_image_info"))
     => /\ last'.err = None
        /\ UNCHANGED <<config, genAI, configSource, lastImagePath, configFile, disk>>
        /\ last'.content = IF last'.tool = "get_configuration_status"
                             THEN StatusNow' ELSE InfoNow']_vars

\* C11 witness: get_last_image_info while the last image's file is gone.
C11_Witness ==
  /\ Responding("get_last_image_info")
  /\ lastImagePath # None
  /\ disk[lastImagePath[1]] = None
  /\ last.err = None

\* the parts of the upstream response given to the step just taken
UpstreamParts == IF last.nd.up.parts = None THEN <<>> ELSE last.nd.up.parts[1]

\* C12: the content of a generate_image or edit_image call that returned is
\* one text part followed by one image part per file the call saved, as
\* many as the upstream parts that carry image data and in their order, each
\* holding the base64 data of its upstream part, which is the data the file
\* of the same rank was written from.
C12_ResultShape ==
  ((Responding("generate_image") \/ Responding("edit_image")) /\ last.err = None)
  => LET imgs == SelectSeq(UpstreamParts, HasImage)
     IN /\ Len(last.saved) = Len(imgs)
        /\ Len(last.content) = 1 + Len(last.saved)
        /\ last.content[1].type = "text"
        /\ \A i \in 1..Len(imgs) :
             /\ last.content[i + 1].type = "image"
             /\ last.content[i + 1].data = imgs[i].inlineData[1].data[1]
             /\ last.saved[i].bytes = Base64ByteLength(last.content[i + 1].data)

\* C12 witness: a generate_image call that saved two different images.
C12_Witness ==
  /\ Responding("generate_image")
  /\ last.err = None
  /\ Len(last.saved) = 2
  /\ Len(last.content) = 3
  /\ last.content[2].data.tag = "u2"
  /\ last.content[3].data.tag = "u1"

\* the step answers a generate_image or edit_image call whose upstream call
\* returned a response without image data
AnswersWithoutImage ==
  /\ Answers("generate_image") \/ Answers("edit_image")
  /\ Len(last'.requests) = 1
  /\ ~last'.nd.up.throws
  /\ \A i \in 1..Len(UpstreamParts') : ~HasImage(UpstreamParts'[i])

NoImageNotes ==
  {"Note: No image was generated. The model may have returned only text.",
   "Note: No edited image was generated."}

MimeTable ==
  {<<<<"photo", ".", "p", "n", "g">>, "image/png">>,
   <<<<"a", ".", "P", "N", "G">>, "image/png">>,
   <<<<"test", ".", "j", "p", "g">>, "image/jpeg">>,
   <<<<"a", ".", "J", "p", "g">>, "image/jpeg">>,
   <<<<"a", ".", "j", "p", "e", "g">>, "image/jpeg">>,
   <<<<"a", ".", "J", "P", "E", "G">>, "image/jpeg">>,
   <<<<"x", ".", "w", "e", "b", "p">>, "image/webp">>,
   <<<<"x", ".", "W", "e", "b", "P">>, "image/webp">>,
   <<<<"file", ".", "g", "i", "f">>, "image/jpeg">>,
   <<<<"noext">>, "image/jpeg">>,
   <<<<"a", ".">>, "image/jpeg">>,
   <<<<"a", ".", "p", "n", "g", ".", "t", "x", "t">>, "image/jpeg">>,
   <<<<"d", ".", "p", "n", "g", "/", "f">>, "image/jpeg">>,
   <<<<"d", "/", ".", "p", "n", "g">>, "image/jpeg">>}

MimeOf(p) == (CHOOSE e \in MimeTable : e[1] = p)[2]

\* C14: the MIME type edit_image sends with a local image is decided by the
\* extension of its path, whatever the case of its letters: .jpg and .jpeg
\* give image/jpeg, .png image/png, .webp image/webp, and any other
\* extension, or none, image/jpeg.
C14_MimeTypeByExtension ==
  (Responding("edit_image") /\ Len(last.requests) = 1)
  => LET a == last.args[1]
         parts == last.requests[1].contents.parts
     IN /\ \A p \in MimePaths : \E e \in MimeTable : e[1] = p
        /\ Len(parts) = 3
        /\ parts[1].mimeType = MimeOf(a.imagePath[1])
        /\ parts[2].mimeType = MimeOf(a.referenceImages[1][1])

\* C14 witness: an upper-case PNG edited with a mixed-case WebP reference.
C14_Witness ==
  /\ Responding("edit_image")
  /\ Len(last.requests) = 1
  /\ last.args[1].imagePath = Some(<<"a", ".", "P", "N", "G">>)
  /\ last.args[1].referenceImages = Some(<< <<"x", ".", "W", "e", "b", "P">> >>)
  /\ last.requests[1].contents.parts[1].mimeType = "image/png"

ErrorCodes == {"MethodNotFound", "InvalidParams", "InvalidRequest", "InternalError"}

\* C15: a call_tool request ends with an error exactly when its handler (or
\* the switch) threw one; the error has one of the four codes; when what was
\* thrown is a protocol error it is the error the request ends with, code
\* and message unchanged; otherwise the request ends with an internal error
\* whose message is "Tool execution failed: " followed by the message of
\* what was thrown.
C15_ErrorTranslation ==
  pc = "responding"
  => /\ (last.err = None) <=> (last.raised = None)
     /\ last.err # None
          => LET thrown == last.raised[1]
                 error == last.err[1]
             IN /\ error.mcp
                /\ error.code \in ErrorCodes
                /\ IF thrown.mcp THEN error = thrown
                   ELSE /\ error.code = "InternalError"
                        /\ error.message = <<"Tool execution failed: ">> \o thrown.message

\* C15 witness: a TypeError thrown by generate_image in a configured session
\* (no arguments to destructure), wrapped by the dispatcher.
C15_Witness ==
  /\ Responding("generate_image")
  /\ config # None
  /\ last.raised # None
  /\ ~last.raised[1].mcp
  /\ last.err[1].code = "InternalError"

\* the step answers a continue_editing call that carries arguments, in a
\* configured session whose last image is still on disk
ContinuesExistingImage ==
  /\ Answers("continue_editing")
  /\ config # None
  /\ genAI # None
  /\ lastImagePath # None
  /\ disk[lastImagePath[1]] # None
  /\ last'.args # None

\* C16: continue_editing, in a configured session whose last image P is on
\* disk, does what edit_image does when it is called in the same state with
\* imagePath = P and the same other arguments, upstream and the file system
\* acting alike: the same upstream request (with aspect ratio 4:3 and, for
\* the pro model, size 1K when these are omitted), the same result or error,
\* the same files and the same session state.
C16_ContinueIsEditOfLast ==
  [][ContinuesExistingImage
     => LET a == last'.args[1]
            e == Dispatch("edit_image", Some([a EXCEPT !.imagePath = lastImagePath]),
                          last'.nd)
        IN /\ last'.requests = e.requests
           /\ last'.err = e.err
           /\ last'.content = e.content
           /\ last'.saved = e.saved
           /\ config' = e.config
           /\ genAI' = e.genAI
           /\ configSource' = e.configSource
           /\ lastImagePath' = e.lastImagePath
           /\ configFile' = e.configFile
           /\ disk' = e.disk
           /\ Len(last'.requests) = 1
           /\ LET c == last'.requests[1].imageConfig
              IN /\ a.aspectRatio = None => c.aspectRatio = "4:3"
                 /\ a.aspectRatio # None => c.aspectRatio = a.aspectRatio[1]
                 /\ IsPro => c.imageSize = IF a.imageSize = None THEN Some("1K")
                                            ELSE a.imageSize]_vars

\* C16 witness: a continue_editing call with its own aspect ratio and size,
\* under the pro model, that returned and saved the edited image.
C16_Witness ==
  /\ Responding("continue_editing")
  /\ last.err = None
  /\ IsPro
  /\ last.args[1].aspectRatio = Some("16:9")
  /\ last.args[1].imageSize = Some("2K")
  /\ Len(last.saved) = 1
  /\ last.requests[1].imageConfig.imageSize = Some("2K")

\* C17: continue_editing with arguments, in a configured session whose last
\* image P is no longer on disk, ends with the invalid-request error "Last
\* image file not found at: P. Please generate a new image first."; nothing
\* is sent upstream, no file changes and lastImagePath is still P.
C17_StaleLastImage ==
  [][(/\ Answers("continue_editing")
      /\ config # None
      /\ lastImagePath # None
      /\ disk[lastImagePath[1]] = None
      /\ last'.args # None)
     => /\ last'.err = Some([mcp |-> TRUE, code |-> "InvalidRequest",
                             message |-> <<"Last image file not found at: ">>
                                         \o lastImagePath[1]
                                         \o <<". Please generate a new image first.">>])
        /\ last'.requests = <<>>
        /\ last'.saved = <<>>
        /\ disk' = disk
        /\ lastImagePath' = lastImagePath]_vars

\* C17 witness: continue_editing after the generated image was removed.
C17_Witness ==
  /\ Responding("continue_editing")
  /\ config # None
  /\ last.args # None
  /\ lastImagePath = Some(ImageFilePath("generated", "t1"))
  /\ disk[lastImagePath[1]] = None
  /\ last.err # None
  /\ last.err[1].code = "InvalidRequest"

\* C18: edit_image with arguments, in a configured session, whose imagePath
\* is missing or names no readable file ends with an error, whatever the
\* reference images are; nothing is sent upstream, no file changes and
\* lastImagePath is as before.
C18_UnreadablePrimaryFails ==
  [][(/\ Answers("edit_image")
      /\ config # None
      /\ last'.args # None
      /\ \/ last'.args[1].imagePath = None
         \/ disk[last'.args[1].imagePath[1]] = None)
     => /\ last'.err # None
        /\ last'.requests = <<>>
        /\ last'.saved = <<>>
        /\ disk' = disk
        /\ lastImagePath' = lastImagePath]_vars

\* C18 witness: edit_image of a missing file with a readable reference, in a
\* session that holds an earlier image.
C18_Witness ==
  /\ Responding("edit_image")
  /\ config # None
  /\ last.args # None
  /\ last.args[1].imagePath = Some(PathC)
  /\ last.args[1].referenceImages = Some(<<PathA>>)
  /\ lastImagePath # None
  /\ last.err # None

\* C19: lastImagePath is absent at start-up; at any time it is absent or the
\* path of an image file of the save directory; and it changes only in a
\* step of generate_image, edit_image or continue_editing, to the path of
\* the last file that step saved, the file being on disk with the bytes
\* written to it.  No other step (configure_gemini_token, the two reads, a
\* call stopped by a guard, an unknown tool) changes it.
C19_LastImagePathOrigin ==
  /\ lastImagePath = None
  /\ [](lastImagePath = None \/ lastImagePath[1] \in SavedPaths)
  /\ [][lastImagePath' # lastImagePath
        => /\ pc' = "responding"
           /\ last'.tool \in ImageTools
           /\ last'.saved # <<>>
           /\ LET file == last'.saved[Len(last'.saved)]
              IN /\ lastImagePath' = Some(file.path)
                 /\ disk'[file.path] # None
                 /\ disk'[file.path][1].size = file.bytes]_vars

\* C19 witness: a generate_image call that failed on its second file, after
\* it had saved the first and made it the last image.
C19_Witness ==
  /\ Responding("generate_image")
  /\ last.err # None
  /\ Len(last.saved) = 1
  /\ lastImagePath = Some(last.saved[1].path)
  /\ prev.saved = None

\* C20, as claimed: in every state, credentials are present if and only if
\* the client is, and the client was built from the stored key, also after a
\* step in which the client constructor or the saving of the record failed.
C20_CredentialsAndClientTogether ==
  /\ (config # None) <=> (genAI # None)
  /\ config # None => genAI[1].apiKey = config[1].geminiApiKey

\* the source tag is the one start-up sets for the key it has just loaded
TagOfStartup ==
  IF EnvKeySet
    THEN /\ configSource' = "environment"
         /\ config'[1].geminiApiKey = env.GEMINI_API_KEY[1]
    ELSE /\ configSource' = "config_file"
         /\ HoldsRecord(config'[1].geminiApiKey)

\* the source tag is the one configure_gemini_token sets for the key it was
\* called with
TagOfConfigure ==
  /\ configSource' = "config_file"
  /\ last'.args # None
  /\ last'.args[1].apiKey = Some(config'[1].geminiApiKey)

UpstreamThrew ==
  /\ \E T \in ImageTools : Answers(T)
  /\ last'.requests # <<>>
  /\ last'.nd.up.throws

\* C22: a generate_image, edit_image or continue_editing call sends at most
\* one request to the model.  When that request throws, the call ends, in
\* the same response, with an internal error whose message ends with the
\* message of what the request threw; exactly one request was sent, no file
\* was written and lastImagePath is what it was.
C22_NoRetry ==
  [][/\ (\E T \in ImageTools : Answers(T)) => Len(last'.requests) <= 1
     /\ UpstreamThrew
          => /\ Len(last'.requests) = 1
             /\ last'.err # None
             /\ last'.err[1].code = "InternalError"
             /\ LET message == last'.err[1].message
                IN message[Len(message)] = last'.nd.up.message
             /\ last'.saved = <<>>
             /\ disk' = disk
             /\ lastImagePath' = lastImagePath]_vars

\* C22 witness: a continue_editing call whose request threw, in a session
\* that has a last image.
C22_Witness ==
  /\ Responding("continue_editing")
  /\ last.nd.up.throws
  /\ Len(last.requests) = 1
  /\ last.err # None
  /\ last.err[1].code = "InternalError"
  /\ lastImagePath # None

\* the model the requests go to is the pro model
ProModelActive == env.GEMINI_IMAGE_MODEL = Some("gemini-3-pro-image-preview")

\* C23: every request generate_image or edit_image sends to the model
\* carries an aspect ratio, the caller's or 4:3 when the caller gave none; it
\* carries an image size, the caller's or 1K when the caller gave none,
\* exactly when GEMINI_IMAGE_MODEL selects the pro model, and has no image
\* size at all with any other model, whatever imageSize the caller passed.
C23_AspectAlwaysSizeOnlyPro ==
  [][\A T \in {"generate_image", "edit_image"} :
       (Answers(T) /\ last'.requests # <<>>)
         => LET imageConfig == last'.requests[1].imageConfig
                arguments == last'.args[1]
            IN /\ imageConfig.aspectRatio =
                    (IF arguments.aspectRatio = None THEN "4:3"
                     ELSE arguments.aspectRatio[1])
               /\ imageConfig.imageSize # None <=> ProModelActive
               /\ ProModelActive
                    => imageConfig.imageSize =
                         Some(IF arguments.imageSize = None THEN "1K"
                              ELSE arguments.imageSize[1])]_vars

\* C23 witness: generate_image called with imageSize 2K and no aspect ratio
\* while another model than the pro one is selected; the request has gone out
\* with 4:3 and without a size.
C23_Witness ==
  /\ Responding("generate_image")
  /\ env.GEMINI_IMAGE_MODEL = Some("gemini-3-pro")
  /\ last.args[1].imageSize = Some("2K")
  /\ last.args[1].aspectRatio = None
  /\ Len(last.requests) = 1
  /\ last.requests[1].imageConfig.aspectRatio = "4:3"
  /\ last.requests[1].imageConfig.imageSize = None

\* C24, as claimed: a generate_image, edit_image or continue_editing call
\* that ends with an error leaves lastImagePath and every file as they were,
\* also when the response holds several images and writing a later one fails
\* after an earlier one was saved.
C24_FailedCallLeavesNothing ==
  [][\A T \in ImageTools :
       (Answers(T) /\ last'.err # None)
         => /\ lastImagePath' = lastImagePath
            /\ disk' = disk]_vars

\* C25, as claimed: a configure_gemini_token call that ends with an error,
\* whether the key was refused or the configuration file could not be
\* written, leaves credentials, client and source tag as they were; a call
\* that returns leaves in the configuration file the record of the key now
\* held as credentials.
C25_ConfigureAllOrNothing ==
  [][Answers("configure_gemini_token")
       => IF last'.err # None
            THEN UNCHANGED <<config, genAI, configSource>>
            ELSE /\ config' # None
                 /\ configFile' = Some(JSONStringify(config'[1]))
                 /\ savedKey' = Some(config'[1].geminiApiKey)]_vars

\* the step ends a call with the not-configured error
EndsNotConfigured ==
  /\ last'.err # None
  /\ last'.err[1] = NotConfiguredError

\* C26: within one process, no step takes credentials away once they are
\* there, and no step takes lastImagePath away once it is there, whether the
\* call it answers returns or fails.  So the guard of generate_image, once
\* passed, is passed ever after: a session with credentials and client keeps
\* them, and generate_image never ends with the not-configured error in it.
C26_ReadinessMonotonic ==
  [][/\ config # None => config' # None
     /\ lastImagePath # None => lastImagePath' # None
     /\ EnsureConfigured => EnsureConfigured'
     /\ (EnsureConfigured /\ Answers("generate_image")) => ~EndsNotConfigured]_vars

\* C26 witness: configure_gemini_token has just refused a key in a session
\* that has credentials and a last image; both are still there.
C26_Witness ==
  /\ Responding("configure_gemini_token")
  /\ last.err # None
  /\ last.err[1].code = "InvalidParams"
  /\ config # None
  /\ genAI # None
  /\ lastImagePath # None

\* C27, as claimed: when a continue_editing call that was suspended at its
\* await goes on, what it sends to the model and what it answers are those
\* of an edit of the path it verified, the lastImagePath of the moment it was
\* called, also when a generate_image or edit_image call has saved a file
\* and assigned lastImagePath in between.
C27_ContinueEditsVerifiedPath ==
  [][(pending # None /\ pending' = None)
       => LET p == pending[1]
              expected == EditImage(Some([apiKey |-> None,
                                          imagePath |-> Some(p.verified),
                                          prompt |-> p.args[1].prompt,
                                          referenceImages |-> p.args[1].referenceImages,
                                          aspectRatio |-> p.args[1].aspectRatio,
                                          imageSize |-> p.args[1].imageSize]),
                                    last'.nd.up, last'.nd.io)
          IN /\ last'.requests = expected.requests
             /\ last'.content = expected.content]_vars

====
